---- MODULE Spec2Model ----
(***************************************************************************)
(* Breakthrough rules engine (breakthrough/BreakthroughGame.py) and the    *)
(* move-selection agents (breakthrough/BreakthroughPlayers.py).            *)
(*                                                                         *)
(* A board is a function  row -> (column -> cell)  over 0..n-1, with cells *)
(* 1 (white), -1 (black) and 0 (empty), as the numpy array board[row][col].*)
(* A flat numpy vector (the validity mask) is a function over 0..len-1.    *)
(***************************************************************************)
EXTENDS Integers, FiniteSets, Sequences, TLC

VARIABLES
    n,       \* self.n of the BreakthroughGame in use
    board,   \* the current position
    player,  \* the side to move on board
    plies,   \* moves played so far, where a specification bounds them
    op,      \* the operation that ran last ("none" before any has run)
    arg,     \* its argument besides (board, player): an action, a typed move
    ret,     \* what it returned
    prev     \* HumanBreakthroughPlayer.prev: the board whose rendering it holds

vars == <<n, board, player, plies, op, arg, ret, prev>>

\* The value of arg and ret when there is none.
None == <<>>

(***************************************************************************)
(* Sizes and bounds                                                        *)
(***************************************************************************)

\* __init__: assert n >= 4
MinN == 4

\* __init__: n = 8, the default board
DefaultN == 8

\* HumanBreakthroughPlayer.play: game = BreakthroughGame(8)
HumanN == 8

\* Board sizes of the function-level specifications: MinN, MinN+2, ...,
\* MinN + 2 * MaxExtra.
MaxExtra == 2

\* Pieces placed freely on the boards of size MinN that the function-level
\* specifications start from; a board two columns wider gets one piece less.
MaxPieces == 2

\* Moves played from the initial position of the default board.
MaxOpeningPlies == 2

\* Moves played before the human agent is handed the board.
MaxHumanPlies == 1

\* __init__: the board sizes the constructor accepts (even, >= MinN).
Sizes == {MinN + 2 * k : k \in 0..MaxExtra}

Players == {1, -1}

(***************************************************************************)
(* BreakthroughGame                                                        *)
(***************************************************************************)

getInitBoard(sz) ==
    [row \in 0..sz-1 |-> [col \in 0..sz-1 |->
        IF row \in {0, 1} THEN -1
        ELSE IF row \in {sz - 1, sz - 2} THEN 1
        ELSE 0]]

getActionSize(sz) == (3 * sz - 2) * (sz - 1)

Actions(sz) == 0..(getActionSize(sz) - 1)

\* getNextState, lines 77-83, with region 2 laid out sz-1 columns wide, as
\* region 1 is.
left_move_wideRegion2(sz, left_act) ==
    IF left_act < (sz - 1) * (sz - 1)
    THEN [dest_row |-> left_act \div (sz - 1),
          src_col |-> left_act % (sz - 1),
          src_row |-> (left_act \div (sz - 1)) + 1,
          dest_col |-> (left_act % (sz - 1)) + 1]
    ELSE [dest_row |-> (left_act - (sz - 1) * (sz - 1)) \div (sz - 1),
          dest_col |-> (left_act - (sz - 1) * (sz - 1)) % (sz - 1),
          src_row |-> ((left_act - (sz - 1) * (sz - 1)) \div (sz - 1)) + 1,
          src_col |-> (left_act - (sz - 1) * (sz - 1)) % (sz - 1)]

\* getNextState, lines 77-83: the move of a left-half action, region 1
\* (diagonal) or region 2 (straight, la_zeroed = left_act - (n-1)(n-1)).
left_move(sz, left_act) ==
    IF left_act < (sz - 1) * (sz - 1)
    THEN [dest_row |-> left_act \div (sz - 1),
          src_col |-> left_act % (sz - 1),
          src_row |-> (left_act \div (sz - 1)) + 1,
          dest_col |-> (left_act % (sz - 1)) + 1]
    ELSE [dest_row |-> (left_act - (sz - 1) * (sz - 1)) \div (sz \div 2),
          dest_col |-> (left_act - (sz - 1) * (sz - 1)) % (sz \div 2),
          src_row |-> ((left_act - (sz - 1) * (sz - 1)) \div (sz \div 2)) + 1,
          src_col |-> (left_act - (sz - 1) * (sz - 1)) % (sz \div 2)]

\* getNextState, line 86: mirror horizontally.
mirror_cols(sz, m) ==
    [m EXCEPT !.src_col = sz - @ - 1, !.dest_col = sz - @ - 1]

\* getNextState, line 88: mirror vertically.
mirror_rows(sz, m) ==
    [m EXCEPT !.src_row = sz - @ - 1, !.dest_row = sz - @ - 1]

\* getNextState, line 75: min(action, (n - 1) * (3 * n - 2) - action - 1).
left_act(sz, action) ==
    IF action <= (sz - 1) * (3 * sz - 2) - action - 1
    THEN action
    ELSE (sz - 1) * (3 * sz - 2) - action - 1

\* decode without the horizontal mirror of lines 85-86.
decode_noMirror(sz, p, action) ==
    LET la == left_act(sz, action)
        m == left_move(sz, la)
    IN  IF p < 0 THEN mirror_rows(sz, m) ELSE m

\* decode without the vertical mirror of lines 87-88.
decode_noFlip(sz, p, action) ==
    LET la == left_act(sz, action)
        m == left_move(sz, la)
    IN  IF la < action THEN mirror_cols(sz, m) ELSE m

\* getNextState, lines 75-88: the move an action number stands for.
decode(sz, p, action) ==
    LET la == left_act(sz, action)
        m == left_move(sz, la)
        mh == IF la < action THEN mirror_cols(sz, m) ELSE m
    IN  IF p < 0 THEN mirror_rows(sz, mh) ELSE mh

\* getNextState writing 1, not player, into the destination.
getNextState_writesOne(sz, b, p, action) ==
    LET m == decode(sz, p, action)
        b1 == [b EXCEPT ![m.src_row][m.src_col] = 0]
        b2 == [b1 EXCEPT ![m.dest_row][m.dest_col] = 1]
    IN  <<b2, -p>>

\* getNextState: the pair (board, -player) it returns.
getNextState(sz, b, p, action) ==
    LET m == decode(sz, p, action)
        b1 == [b EXCEPT ![m.src_row][m.src_col] = 0]
        b2 == [b1 EXCEPT ![m.dest_row][m.dest_col] = p]
    IN  <<b2, -p>>

getCanonicalForm(sz, b, p) ==
    IF p > 0 THEN b
    ELSE [row \in 0..sz-1 |-> [col \in 0..sz-1 |-> b[sz - 1 - row][col] * p]]

\* moves_right with the destination test < 0: captures only.
moves_right_captureOnly(sz, cb) ==
    [i \in 0..sz-2 |-> [j \in 0..sz-2 |->
        cb[i + 1][j] > 0 /\ cb[i][j + 1] < 0]]

\* getValidMoves: the four regions, each a (sz-1)-row array of booleans.
\* cb[1:,:-1][i][j] = cb[i+1][j] and cb[:-1,1:][i][j] = cb[i][j+1].
moves_right(sz, cb) ==
    [i \in 0..sz-2 |-> [j \in 0..sz-2 |->
        cb[i + 1][j] > 0 /\ cb[i][j + 1] <= 0]]

\* cb[1:,:n//2][i][j] = cb[i+1][j] and cb[:-1,:n//2][i][j] = cb[i][j].
moves_forward1(sz, cb) ==
    [i \in 0..sz-2 |-> [j \in 0..(sz \div 2)-1 |->
        cb[i + 1][j] > 0 /\ cb[i][j] = 0]]

\* moves_forward2 without the two flipud calls.
moves_forward2_unflipped(sz, cb) ==
    [i \in 0..sz-2 |-> [j \in 0..(sz \div 2)-1 |->
        cb[i + 1][(sz \div 2) + j] > 0 /\ cb[i][(sz \div 2) + j] = 0]]

\* flipud(x)[i] = x[sz-2-i] for the (sz-1)-row slices:
\* flipud(cb[1:,n//2:])[i][j] = cb[sz-1-i][n//2+j],
\* flipud(cb[:-1,n//2:])[i][j] = cb[sz-2-i][n//2+j].
moves_forward2(sz, cb) ==
    [i \in 0..sz-2 |-> [j \in 0..(sz \div 2)-1 |->
        cb[sz - 1 - i][(sz \div 2) + j] > 0 /\ cb[sz - 2 - i][(sz \div 2) + j] = 0]]

\* flipud(cb[1:,1:])[i][j] = cb[sz-1-i][j+1],
\* flipud(cb[:-1,:-1])[i][j] = cb[sz-2-i][j].
moves_left(sz, cb) ==
    [i \in 0..sz-2 |-> [j \in 0..sz-2 |->
        cb[sz - 1 - i][j + 1] > 0 /\ cb[sz - 2 - i][j] <= 0]]

\* getValidMoves: the regions flattened row-major and concatenated, the
\* booleans cast to int8; entry k falls in the region its offset selects.
getValidMoves(sz, b, p) ==
    LET cb == getCanonicalForm(sz, b, p)
        r1 == moves_right(sz, cb)
        r2 == moves_forward1(sz, cb)
        r3 == moves_forward2(sz, cb)
        r4 == moves_left(sz, cb)
        w1 == sz - 1
        w2 == sz \div 2
        len1 == (sz - 1) * w1
        len2 == (sz - 1) * w2
        bit(x) == IF x THEN 1 ELSE 0
    IN  [k \in Actions(sz) |->
            IF k < len1 THEN bit(r1[k \div w1][k % w1])
            ELSE IF k < len1 + len2
                THEN bit(r2[(k - len1) \div w2][(k - len1) % w2])
            ELSE IF k < len1 + 2 * len2
                THEN bit(r3[(k - len1 - len2) \div w2][(k - len1 - len2) % w2])
            ELSE bit(r4[(k - len1 - 2 * len2) \div w1][(k - len1 - 2 * len2) % w1])]

\* getGameEnded testing b_win before w_win.
getGameEnded_blackFirst(sz, b, p) ==
    LET w_win == \E col \in 0..sz-1 : b[0][col] = 1
        b_win == \E col \in 0..sz-1 : b[sz - 1][col] = -1
    IN  IF b_win THEN -p
        ELSE IF w_win THEN p
        ELSE 0

\* getGameEnded without the test of w_win.
getGameEnded_noWhiteWin(sz, b, p) ==
    LET b_win == \E col \in 0..sz-1 : b[sz - 1][col] = -1
    IN  IF b_win THEN -p
        ELSE 0

getGameEnded(sz, b, p) ==
    LET w_win == \E col \in 0..sz-1 : b[0][col] = 1
        b_win == \E col \in 0..sz-1 : b[sz - 1][col] = -1
    IN  IF w_win THEN p
        ELSE IF b_win THEN -p
        ELSE 0

\* np.fliplr: the columns of a sz-column array reversed.
fliplr(sz, b) == [row \in DOMAIN b |-> [col \in 0..sz-1 |-> b[row][sz - 1 - col]]]

\* np.flip of a flat vector of length len.
flip(len, pi) == [i \in 0..len-1 |-> pi[len - 1 - i]]

getSymmetries(sz, b, pi) ==
    << <<b, pi>>, <<fliplr(sz, b), flip(getActionSize(sz), pi)>> >>

(***************************************************************************)
(* A game played from the initial position: the side to move plays an     *)
(* action its validity mask marks, until getGameEnded is nonzero.          *)
(***************************************************************************)

InitPlay ==
    /\ n = MinN
    /\ board = getInitBoard(MinN)
    /\ player = 1
    /\ plies = 0
    /\ op = "none"
    /\ arg = None
    /\ ret = None
    /\ prev = None

PlayMove ==
    /\ getGameEnded(n, board, player) = 0
    /\ \E valids \in {getValidMoves(n, board, player)} :
        \E action \in Actions(n) :
            /\ valids[action] = 1
            /\ \E next \in {getNextState(n, board, player, action)} :
                /\ board' = next[1]
                /\ player' = next[2]
    /\ UNCHANGED <<n, plies, op, arg, ret, prev>>

NextPlay == PlayMove

SpecPlay == InitPlay /\ [][NextPlay]_vars


\* One of +1's pieces stands on row 0 / one of -1's pieces on row n-1.
WhiteHome == \E col \in 0..n-1 : board[0][col] = 1
BlackHome == \E col \in 0..n-1 : board[n - 1][col] = -1

\* C8: in a game played from the initial position with marked actions only
\* and stopped once getGameEnded is nonzero, no board has both a +1 on row 0
\* and a -1 on row n-1.
C8_NeverBothWins == ~(WhiteHome /\ BlackHome)

\* A game that +1 has won by reaching row 0.
C8_Witness == WhiteHome /\ getGameEnded(n, board, player) # 0

\* C9: in such a game, a position getGameEnded reports as not ended has at
\* least one action marked valid for the side to move.
C9_AlwaysAMove ==
    getGameEnded(n, board, player) = 0
        => \E action \in Actions(n) : getValidMoves(n, board, player)[action] = 1

(***************************************************************************)
(* Inputs of the function-level specifications                            *)
(***************************************************************************)

EmptyBoard(sz) == [row \in 0..sz-1 |-> [col \in 0..sz-1 |-> 0]]

\* The boards of size sz with at most k pieces, all on cells from..sz*sz-1
\* (cells counted row-major).
RECURSIVE Boards(_, _, _)
Boards(sz, k, from) ==
    IF k = 0 THEN {EmptyBoard(sz)}
    ELSE {EmptyBoard(sz)} \cup UNION {
            {[b EXCEPT ![i \div sz][i % sz] = v] :
                b \in Boards(sz, k - 1, i + 1), v \in Players}
            : i \in from..(sz * sz - 1)}

\* Free pieces on a board of size sz.
Budget(sz) == MaxPieces - (sz - MinN) \div 2

InputBoards(sz) ==
    {getInitBoard(sz)} \cup
    (IF Budget(sz) >= 0 THEN Boards(sz, Budget(sz), 0) ELSE {})

InitInput ==
    /\ n \in Sizes
    /\ board \in InputBoards(n)
    /\ player \in Players
    /\ plies = 0
    /\ op = "none"
    /\ arg = None
    /\ ret = None
    /\ prev = None

(***************************************************************************)
(* getValidMoves and getGameEnded called on any board                     *)
(* (one call on each input: op = "none" until it has been made)           *)
(***************************************************************************)

CallGetValidMoves ==
    /\ op = "none"
    /\ op' = "getValidMoves"
    /\ arg' = None
    /\ ret' = getValidMoves(n, board, player)
    /\ UNCHANGED <<n, board, player, plies, prev>>

CallGetGameEnded ==
    /\ op = "none"
    /\ op' = "getGameEnded"
    /\ arg' = None
    /\ ret' = getGameEnded(n, board, player)
    /\ UNCHANGED <<n, board, player, plies, prev>>

NextQuery == CallGetValidMoves \/ CallGetGameEnded

SpecQuery == InitInput /\ [][NextQuery]_vars

\* The move shapes of the claims, on a decoded move m.
InBoard(sz, m) ==
    /\ m.src_row \in 0..sz-1 /\ m.src_col \in 0..sz-1
    /\ m.dest_row \in 0..sz-1 /\ m.dest_col \in 0..sz-1

OneRowForward(p, m) ==
    IF p > 0 THEN m.dest_row = m.src_row - 1 ELSE m.dest_row = m.src_row + 1

Diagonal(m) == m.dest_col = m.src_col - 1 \/ m.dest_col = m.src_col + 1
Straight(m) == m.dest_col = m.src_col

\* What the claims call a legal move of side p on board b.
LegalMove(b, p, m) ==
    /\ b[m.src_row][m.src_col] = p
    /\ \/ Diagonal(m) /\ b[m.dest_row][m.dest_col] # p
       \/ Straight(m) /\ b[m.dest_row][m.dest_col] = 0

\* C1: the mask of getValidMoves has a 1 at action a exactly when the move
\* getNextState decodes for a takes one of the player's pieces diagonally to
\* a cell not holding a piece of the player, or straight to an empty cell;
\* a marked action moves one row forward, at most one column sideways.
C1_MaskMatchesDecode ==
    op = "getValidMoves" =>
        /\ DOMAIN ret = Actions(n)
        /\ \A action \in Actions(n) :
            LET m == decode(n, player, action)
            IN  /\ ret[action] \in {0, 1}
                /\ ret[action] = 1 <=> LegalMove(board, player, m)
                /\ ret[action] = 1 =>
                    /\ InBoard(n, m)
                    /\ OneRowForward(player, m)
                    /\ Diagonal(m) \/ Straight(m)
                    /\ board[m.dest_row][m.dest_col] # player

\* A mask that marks a capture, and leaves unmarked a move onto a friend and
\* a straight move onto an opposing piece.
C1_Witness ==
    /\ op = "getValidMoves"
    /\ \E a1, a2, a3 \in Actions(n) :
        LET m1 == decode(n, player, a1)
            m2 == decode(n, player, a2)
            m3 == decode(n, player, a3)
        IN  /\ ret[a1] = 1
            /\ board[m1.dest_row][m1.dest_col] = -player
            /\ ret[a2] = 0
            /\ board[m2.src_row][m2.src_col] = player
            /\ board[m2.dest_row][m2.dest_col] = player
            /\ ret[a3] = 0
            /\ Straight(m3)
            /\ board[m3.src_row][m3.src_col] = player
            /\ board[m3.dest_row][m3.dest_col] = -player

\* C5: getGameEnded returns player when a +1 stands on row 0 (whatever row
\* n-1 holds), else -player when a -1 stands on row n-1, else 0; it is
\* nonzero exactly when one of the two holds.
C5_TerminalValue ==
    op = "getGameEnded" =>
        /\ WhiteHome => ret = player
        /\ (~WhiteHome /\ BlackHome) => ret = -player
        /\ (~WhiteHome /\ ~BlackHome) => ret = 0
        /\ ret # 0 <=> (WhiteHome \/ BlackHome)

\* Both win conditions hold and +1's win is the one reported.
C5_Witness ==
    op = "getGameEnded" /\ WhiteHome /\ BlackHome /\ ret = player


(***************************************************************************)
(* getNextState called on any board with any action number                *)
(***************************************************************************)

CallGetNextState ==
    \E action \in Actions(n) :
        /\ op = "none"
        /\ op' = "getNextState"
        /\ arg' = action
        /\ ret' = getNextState(n, board, player, action)
        /\ UNCHANGED <<n, board, player, plies, prev>>

NextApply == CallGetNextState

SpecApply == InitInput /\ [][NextApply]_vars

\* The policy vector with all weight on one action.
OneHot(sz, action) == [i \in Actions(sz) |-> IF i = action THEN 1 ELSE 0]

\* C2: the second entry of getSymmetries pairs the left-right mirrored board
\* with the policy reversed, which sends action a to actionSize-1-a, never a
\* itself; the two actions decode to the same rows and to columns reflected
\* by c -> n-1-c, and applying the second to the mirrored board gives the
\* mirror of the board that applying the first gave.
C2_MirrorAction ==
    op = "getNextState" =>
        LET sym == getSymmetries(n, board, OneHot(n, arg))[2]
            mirrored == getActionSize(n) - 1 - arg
            m == decode(n, player, arg)
            mm == decode(n, player, mirrored)
        IN  /\ mirrored # arg
            /\ \A i \in Actions(n) : sym[2][i] = 1 <=> i = mirrored
            /\ mm.src_row = m.src_row /\ mm.dest_row = m.dest_row
            /\ mm.src_col = n - 1 - m.src_col
            /\ mm.dest_col = n - 1 - m.dest_col
            /\ getNextState(n, sym[1], player, mirrored)[1] = fliplr(n, ret[1])

\* A piece moved off the centre line of an asymmetric board.
C2_Witness ==
    /\ op = "getNextState"
    /\ getValidMoves(n, board, player)[arg] = 1
    /\ fliplr(n, board) # board
    /\ fliplr(n, ret[1]) # ret[1]

\* C4: applying an action the mask marks valid returns the other player to
\* move and a board that differs from the input in exactly two cells: the
\* decoded source, now 0, and the decoded destination, now player.
C4_TwoCellsChange ==
    (op = "getNextState" /\ getValidMoves(n, board, player)[arg] = 1) =>
        LET m == decode(n, player, arg)
            changed == {rc \in (0..n-1) \X (0..n-1) :
                            ret[1][rc[1]][rc[2]] # board[rc[1]][rc[2]]}
        IN  /\ ret[2] = -player
            /\ DOMAIN ret[1] = 0..n-1
            /\ changed = {<<m.src_row, m.src_col>>, <<m.dest_row, m.dest_col>>}
            /\ Cardinality(changed) = 2
            /\ ret[1][m.src_row][m.src_col] = 0
            /\ ret[1][m.dest_row][m.dest_col] = player

\* A valid capture has been applied.
C4_Witness ==
    /\ op = "getNextState"
    /\ getValidMoves(n, board, player)[arg] = 1
    /\ LET m == decode(n, player, arg)
       IN  board[m.dest_row][m.dest_col] = -player

\* C10: for side -1, applying an action to the canonical board as side +1
\* gives the canonical form of the board that applying it to the real board
\* as side -1 gives.
C10_ApplyCommutesWithCanonical ==
    (op = "getNextState" /\ player = -1) =>
        getNextState(n, getCanonicalForm(n, board, -1), 1, arg)[1]
            = getCanonicalForm(n, ret[1], -1)

\* Side -1 has played a valid move on a board that holds pieces of both.
C10_Witness ==
    /\ op = "getNextState"
    /\ player = -1
    /\ getValidMoves(n, board, player)[arg] = 1
    /\ \E row, col \in 0..n-1 : board[row][col] = 1


(***************************************************************************)
(* getNextState called with any action number on the initial board of     *)
(* each size                                                               *)
(***************************************************************************)

InitDecode ==
    /\ n \in Sizes
    /\ board = getInitBoard(n)
    /\ player \in Players
    /\ plies = 0
    /\ op = "none"
    /\ arg = None
    /\ ret = None
    /\ prev = None

SpecDecode == InitDecode /\ [][NextApply]_vars

\* The moves inside the board that go one row forward for side p and change
\* the column by -1, 0 or +1.
GeometricMoves(sz, p) ==
    {m \in {[src_row |-> r, src_col |-> c,
             dest_row |-> IF p > 0 THEN r - 1 ELSE r + 1, dest_col |-> c + d] :
                r \in 0..sz-1, c \in 0..sz-1, d \in {-1, 0, 1}} :
        InBoard(sz, m)}

\* C3: for each player, getNextState's decoding is a bijection between the
\* actions 0..(3n-2)(n-1)-1 and the moves inside the board that go one row
\* forward and at most one column sideways: the decoded cells are inside the
\* board (they are the cells getNextState wrote), no other action decodes to
\* the same move, and every such move is decoded from some action.
C3_DecodeBijection ==
    op = "getNextState" =>
        LET m == decode(n, player, arg)
        IN  /\ getActionSize(n) = (3 * n - 2) * (n - 1)
            /\ m \in GeometricMoves(n, player)
            /\ ret[1][m.src_row][m.src_col] = 0
            /\ ret[1][m.dest_row][m.dest_col] = player
            /\ \A other \in Actions(n) :
                decode(n, player, other) = m => other = arg
            /\ \A g \in GeometricMoves(n, player) :
                \E action \in Actions(n) : decode(n, player, action) = g

\* The last action of the numbering, a diagonal move of side -1, was applied.
C3_Witness ==
    /\ op = "getNextState"
    /\ player = -1
    /\ arg = getActionSize(n) - 1
    /\ Diagonal(decode(n, player, arg))


(***************************************************************************)
(* The opening of a game on the default board: the driver asks for the    *)
(* validity mask of the position, then plays an action it marks.           *)
(***************************************************************************)

InitOpening ==
    /\ n = DefaultN
    /\ board = getInitBoard(DefaultN)
    /\ player = 1
    /\ plies = 0
    /\ op = "getInitBoard"
    /\ arg = None
    /\ ret = None
    /\ prev = None

AskValidMoves ==
    /\ op # "getValidMoves"
    /\ op' = "getValidMoves"
    /\ arg' = None
    /\ ret' = getValidMoves(n, board, player)
    /\ UNCHANGED <<n, board, player, plies, prev>>

PlayValidMove ==
    /\ op = "getValidMoves"
    /\ plies < MaxOpeningPlies
    /\ getGameEnded(n, board, player) = 0
    /\ \E action \in Actions(n) :
        /\ ret[action] = 1
        /\ \E next \in {getNextState(n, board, player, action)} :
            /\ board' = next[1]
            /\ player' = next[2]
            /\ ret' = next
        /\ arg' = action
    /\ op' = "getNextState"
    /\ plies' = plies + 1
    /\ UNCHANGED <<n, prev>>

NextOpening == AskValidMoves \/ PlayValidMove

SpecOpening == InitOpening /\ [][NextOpening]_vars

\* C7: on the 8 x 8 board getInitBoard fills rows 0 and 1 with -1, rows 6 and
\* 7 with +1 and leaves rows 2..5 empty, and the mask of side +1 on it marks
\* exactly the 22 actions that decode to a move from row 6 into row 5 (8
\* straight, 7 to the right, 7 to the left); no action decoding to a
\* destination in row 6 or 7 is marked.
C7_OpeningMoves ==
    (op = "getValidMoves" /\ plies = 0) =>
        LET m(a) == decode(n, 1, a)
            marked == {a \in Actions(n) : ret[a] = 1}
        IN  /\ n = 8 /\ player = 1
            /\ \A row, col \in 0..7 :
                board[row][col] = IF row \in {0, 1} THEN -1
                                  ELSE IF row \in {6, 7} THEN 1 ELSE 0
            /\ marked = {a \in Actions(n) :
                            m(a).src_row = 6 /\ m(a).dest_row = 5}
            /\ Cardinality(marked) = 22
            /\ Cardinality({a \in marked : Straight(m(a))}) = 8
            /\ Cardinality({a \in marked : m(a).dest_col = m(a).src_col + 1}) = 7
            /\ Cardinality({a \in marked : m(a).dest_col = m(a).src_col - 1}) = 7
            /\ \A a \in Actions(n) : m(a).dest_row \in {6, 7} => ret[a] = 0

\* The mask of the initial position has been computed and marks an action.
C7_Witness ==
    /\ op = "getValidMoves"
    /\ plies = 0
    /\ \E a \in Actions(n) : ret[a] = 1

(***************************************************************************)
(* HumanBreakthroughPlayer.play, handed the canonical board of the side   *)
(* to move in a game on the 8 x 8 board.                                   *)
(*                                                                         *)
(* A typed move is the tuple of its four characters, each as its distance *)
(* from 'a' (a file) or from '1' (a rank).                                 *)
(***************************************************************************)

Files == 0..7
Ranks == 0..7
MoveStrings == Files \X Ranks \X Files \X Ranks

\* movestr[0..3] of the source are movestr[1..4] here.
parse_movestr(movestr) ==
    <<7 - movestr[2], movestr[1], 7 - movestr[4], movestr[3]>>

\* The board play is called with.
Handed == getCanonicalForm(n, board, player)

\* play, lines 41-46: the first action whose effect changes both typed cells,
\* or getActionSize when range(getActionSize) is exhausted without one.
scan(sz, b, parsed, try_next) ==
    LET hits == {action \in Actions(sz) :
                    /\ try_next[action][parsed[1]][parsed[2]] # b[parsed[1]][parsed[2]]
                    /\ try_next[action][parsed[3]][parsed[4]] # b[parsed[3]][parsed[4]]}
    IN  IF hits = {} THEN getActionSize(sz)
        ELSE CHOOSE action \in hits : \A other \in hits : action <= other

InitHuman ==
    /\ n = HumanN
    /\ board = getInitBoard(HumanN)
    /\ player = 1
    /\ plies = 0
    /\ op = "none"
    /\ arg = None
    /\ ret = None
    /\ prev = None

\* The moves of the game before the agent's turn.
EarlierMove ==
    /\ op = "none"
    /\ plies < MaxHumanPlies
    /\ getGameEnded(n, board, player) = 0
    /\ \E valids \in {getValidMoves(n, board, player)} :
        \E action \in Actions(n) :
            /\ valids[action] = 1
            /\ \E next \in {getNextState(n, board, player, action)} :
                /\ board' = next[1]
                /\ player' = next[2]
    /\ plies' = plies + 1
    /\ UNCHANGED <<n, op, arg, ret, prev>>

\* play, lines 32-36: up to the first prompt.
play_enter ==
    /\ op = "none"
    /\ op' = "input"
    /\ prev' = IF prev = None THEN getInitBoard(HumanN) ELSE prev
    /\ UNCHANGED <<n, board, player, plies, arg, ret>>

\* play, lines 38-46: one round of the while loop, from the typed line to
\* the return (arg is the parsed line, ret the action) or back to the prompt
\* with nothing changed.
play_input ==
    /\ op = "input"
    /\ \E try_next \in {[action \in Actions(HumanN) |->
                            getNextState(HumanN, Handed, 1, action)[1]]} :
        \E movestr \in MoveStrings :
            \E found \in {scan(HumanN, Handed, parse_movestr(movestr), try_next)} :
                IF found = getActionSize(HumanN)
                THEN UNCHANGED <<op, arg, ret, prev>>
                ELSE /\ op' = "play"
                     /\ arg' = parse_movestr(movestr)
                     /\ ret' = found
                     /\ prev' = try_next[found]
    /\ UNCHANGED <<n, board, player, plies>>

NextHuman == EarlierMove \/ play_enter \/ play_input

SpecHuman == InitHuman /\ [][NextHuman]_vars

\* C6: play returns an action only if the mask of the handed board marks it
\* for side +1 and it decodes to the typed source and destination (so a typed
\* move that matches no marked action is answered by another prompt, not by
\* a return).
C6_HumanReturnsTypedLegalMove ==
    op = "play" =>
        /\ getValidMoves(HumanN, Handed, 1)[ret] = 1
        /\ LET m == decode(HumanN, 1, ret)
           IN  <<m.src_row, m.src_col, m.dest_row, m.dest_col>> = arg

====
